---- MODULE Spec2Model ----
(***************************************************************************)
(* A model of class DataStreamer of QT_HUD_UI.cpp: a QObject with one      *)
(* signal, dataChanged(QString), and one method, startStreaming(), that    *)
(* creates and starts a thread running                                     *)
(*     int counter = 0;                                                    *)
(*     while (true) { data = "Data update: %1".arg(counter++);             *)
(*                    emit dataChanged(data); sleep_for(1s); }             *)
(* The callers of the class (startStreaming, connecting to and             *)
(* disconnecting from the signal, destroying the object) are the           *)
(* environment.                                                            *)
(***************************************************************************)
EXTENDS Integers, Sequences, FiniteSets, TLC

\* Bounds of the model.
MaxThreads == 2     \* calls of startStreaming that are explored
MaxEvents == 3      \* events, of all threads together, that are explored
MaxConn == 2        \* connections to dataChanged that are explored

Threads == 1..MaxThreads
Handles == 1..MaxConn

VARIABLES
    obj,        \* "alive" | "destroyed": the DataStreamer object
    crashed,    \* the process was ended by a use of the destroyed object
    touched,    \* a producer thread used `this` after the object was destroyed
    nThreads,   \* number of threads created by startStreaming so far
    pc,         \* pc[t]: the position of thread t in the lambda
    counter,    \* counter[t]: the lambda's local `counter` of thread t
    data,       \* data[t]: the lambda's local `data` of thread t
    startedAt,  \* startedAt[t]: Len(log) when startStreaming created thread t
    log,        \* every emission of dataChanged so far: [src, data]
    nConns,     \* number of connections made to dataChanged so far
    conn,       \* conn[h]: [state, type, since] of connection handle h
    cursor,     \* cursor[t]: next connection the emission of thread t visits
    last,       \* last[t]: highest connection id when the emission began
    incall,     \* incall[t]: the handle whose slot thread t is executing, or 0
    pending,    \* pending[h]: calls posted to the receiver's event queue
    received,   \* received[h]: the events the slot of h was invoked with
    lateCall    \* lateCall[h]: the slot of h was invoked after disconnect(h)

prod == <<obj, crashed, touched, nThreads, pc, counter, data, startedAt, log>>
sig == <<nConns, conn, cursor, last, incall, pending, received, lateCall>>
vars == <<prod, sig>>

\* The locals of a lambda that has not run yet: counter and data.
NoCounter == -1
NoData == ""

\* QString("Data update: %1"): the pieces of the template.
Template == <<"Data update: ", "%1">>

\* QString::arg(int): the place marker %1 replaced by the number in decimal.
Arg(tmpl, n) ==
    LET piece(i) == IF tmpl[i] = "%1" THEN ToString(n) ELSE tmpl[i]
        cat[i \in 0..Len(tmpl)] == IF i = 0 THEN "" ELSE cat[i - 1] \o piece(i)
    IN cat[Len(tmpl)]

TypeOK ==
    /\ obj \in {"alive", "destroyed"}
    /\ crashed \in BOOLEAN /\ touched \in BOOLEAN
    /\ nThreads \in 0..MaxThreads
    /\ pc \in [Threads -> {"none", "begin", "while", "format", "emit",
                           "activate", "sleep", "finished"}]
    /\ \A t \in Threads : counter[t] \in 0..MaxEvents \cup {NoCounter}
    /\ startedAt \in [Threads -> Nat]
    /\ nConns \in 0..MaxConn
    /\ incall \in [Threads -> 0..MaxConn]
    /\ lateCall \in [Handles -> BOOLEAN]

\* DataStreamer(QObject *parent = nullptr) : QObject(parent) {}
\* A constructed object: no thread, no emission, no connection.
Init ==
    /\ obj = "alive"
    /\ crashed = FALSE
    /\ touched = FALSE
    /\ nThreads = 0
    /\ pc = [t \in Threads |-> "none"]
    /\ counter = [t \in Threads |-> NoCounter]
    /\ data = [t \in Threads |-> NoData]
    /\ startedAt = [t \in Threads |-> 0]
    /\ log = <<>>
    /\ nConns = 0
    /\ conn = [h \in Handles |-> [state |-> "unused", type |-> "none", since |-> 0]]
    /\ cursor = [t \in Threads |-> 0]
    /\ last = [t \in Threads |-> 0]
    /\ incall = [t \in Threads |-> 0]
    /\ pending = [h \in Handles |-> <<>>]
    /\ received = [h \in Handles |-> <<>>]
    /\ lateCall = [h \in Handles |-> FALSE]

\* void startStreaming(): QThread::create([this]{...})->start().  No test of
\* whether a thread was started before, nothing returned, nothing kept.
startStreaming ==
    /\ obj = "alive" /\ ~crashed
    /\ nThreads < MaxThreads
    /\ nThreads' = nThreads + 1
    /\ pc' = [pc EXCEPT ![nThreads + 1] = "begin"]
    /\ startedAt' = [startedAt EXCEPT ![nThreads + 1] = Len(log)]
    /\ UNCHANGED <<obj, crashed, touched, counter, data, log, sig>>

\* A counter that goes on from the emissions made so far, not from 0.
InitialCounterShared(t) == Len(log)

\* int counter = 0;
InitialCounter(t) == 0

ThreadBegin(t) ==
    /\ ~crashed
    /\ pc[t] = "begin"
    /\ counter' = [counter EXCEPT ![t] = InitialCounter(t)]
    /\ pc' = [pc EXCEPT ![t] = "while"]
    /\ UNCHANGED <<obj, crashed, touched, nThreads, data, startedAt, log, sig>>

\* A loop that ends after its first round.
WhileCondOnce(t) == counter[t] < 1

\* while (true)
WhileCond(t) == TRUE

LoopTest(t) ==
    /\ ~crashed
    /\ pc[t] = "while"
    /\ pc' = [pc EXCEPT ![t] = IF WhileCond(t) THEN "format" ELSE "finished"]
    /\ UNCHANGED <<obj, crashed, touched, nThreads, counter, data, startedAt, log, sig>>

\* The events the producer threads have formatted so far.
RECURSIVE SumCounters(_)
SumCounters(n) ==
    IF n = 0 THEN 0
    ELSE SumCounters(n - 1) + (IF counter[n] = NoCounter THEN 0 ELSE counter[n])

Produced == SumCounters(MaxThreads)

\* counter++ : the value after the increment
Increment(n) == n + 1

\* QString data = QString("Data update: %1").arg(counter++);
\* (Produced < MaxEvents is the bound of the exploration, not the code's.)
Format(t) ==
    /\ ~crashed
    /\ pc[t] = "format"
    /\ Produced < MaxEvents
    /\ data' = [data EXCEPT ![t] = Arg(Template, counter[t])]
    /\ counter' = [counter EXCEPT ![t] = Increment(counter[t])]
    /\ pc' = [pc EXCEPT ![t] = "emit"]
    /\ UNCHANGED <<obj, crashed, touched, nThreads, startedAt, log, sig>>

\* emit dataChanged(data); on a live object: the emission begins. The
\* connections made up to now are the ones it visits, in the order made.
dataChanged(t) ==
    /\ ~crashed
    /\ pc[t] = "emit"
    /\ obj = "alive"
    /\ log' = Append(log, [src |-> t, data |-> data[t]])
    /\ cursor' = [cursor EXCEPT ![t] = 1]
    /\ last' = [last EXCEPT ![t] = nConns]
    /\ pc' = [pc EXCEPT ![t] = "activate"]
    /\ UNCHANGED <<obj, crashed, touched, nThreads, counter, data, startedAt,
                   nConns, conn, incall, pending, received, lateCall>>

\* The event thread t is emitting: its latest entry of the log.
Current(t) ==
    CHOOSE i \in 1..Len(log) :
        /\ log[i].src = t
        /\ \A j \in (i + 1)..Len(log) : log[j].src # t

\* emit dataChanged(data), continued: visit the next connection. A direct
\* connection's slot is called in this thread, which goes on when the slot
\* returns; a queued connection's call is posted to the receiver's event
\* queue. After the last connection the statement is complete.
Activate(t) ==
    /\ ~crashed
    /\ pc[t] = "activate"
    /\ obj = "alive"
    /\ incall[t] = 0
    /\ IF cursor[t] > last[t]
       THEN /\ pc' = [pc EXCEPT ![t] = "sleep"]
            /\ cursor' = [cursor EXCEPT ![t] = 0]
            /\ last' = [last EXCEPT ![t] = 0]
            /\ UNCHANGED <<incall, pending, received>>
       ELSE LET h == cursor[t] IN
            /\ cursor' = [cursor EXCEPT ![t] = h + 1]
            /\ UNCHANGED <<pc, last>>
            /\ IF conn[h].state # "connected"
               THEN UNCHANGED <<incall, pending, received>>
               ELSE IF conn[h].type = "direct"
               THEN /\ received' = [received EXCEPT ![h] = Append(@, Current(t))]
                    /\ incall' = [incall EXCEPT ![t] = h]
                    /\ UNCHANGED pending
               ELSE /\ pending' = [pending EXCEPT ![h] = Append(@, Current(t))]
                    /\ UNCHANGED <<incall, received>>
    /\ UNCHANGED <<obj, crashed, touched, nThreads, counter, data, startedAt, log,
                   nConns, conn, lateCall>>

\* std::this_thread::sleep_for(std::chrono::seconds(1));
Sleep(t) ==
    /\ ~crashed
    /\ pc[t] = "sleep"
    /\ pc' = [pc EXCEPT ![t] = "while"]
    /\ UNCHANGED <<obj, crashed, touched, nThreads, counter, data, startedAt, log, sig>>

\* One step of producer thread t on a live object.
ThreadStep(t) ==
    ThreadBegin(t) \/ LoopTest(t) \/ Format(t) \/ dataChanged(t) \/ Activate(t) \/ Sleep(t)

\* The object is destroyed (the class declares no destructor: QObject's
\* disconnects the signal's connections; nothing stops or joins the threads
\* startStreaming created, whose lambdas hold `this`).
Destroy ==
    /\ ~crashed
    /\ obj = "alive"
    /\ obj' = "destroyed"
    /\ conn' = [h \in Handles |->
                  IF conn[h].state = "connected"
                  THEN [conn[h] EXCEPT !.state = "released"] ELSE conn[h]]
    /\ UNCHANGED <<crashed, touched, nThreads, pc, counter, data, startedAt, log,
                   nConns, cursor, last, incall, pending, received, lateCall>>

\* What a use of the destroyed object can do to the thread using it.
Outcomes == {"crash", "continue"}

\* emit dataChanged(data) through the dangling `this`: undefined behaviour.
\* The process is ended, or the statement passes with no slot called.
EmitDangling(t) ==
    /\ ~crashed
    /\ pc[t] \in {"emit", "activate"}
    /\ obj = "destroyed"
    /\ incall[t] = 0
    /\ touched' = TRUE
    /\ \E o \in Outcomes :
          /\ crashed' = (o = "crash")
          /\ pc' = [pc EXCEPT ![t] = IF o = "crash" THEN @ ELSE "sleep"]
    /\ UNCHANGED <<obj, nThreads, counter, data, startedAt, log, sig>>

\* How a connection delivers: in the emitting thread, or through the
\* receiver's event queue.
ConnTypes == {"direct", "queued"}

\* A connect that also hands the latest event to the new receiver.
ConnectReplay(type) ==
    /\ ~crashed
    /\ obj = "alive"
    /\ nConns < MaxConn
    /\ nConns' = nConns + 1
    /\ conn' = [conn EXCEPT ![nConns + 1] =
                  [state |-> "connected", type |-> type, since |-> Len(log)]]
    /\ pending' = [pending EXCEPT ![nConns + 1] =
                     IF log = <<>> THEN <<>> ELSE <<Len(log)>>]
    /\ UNCHANGED <<prod, cursor, last, incall, received, lateCall>>

\* QObject::connect(streamer, &DataStreamer::dataChanged, ...): a new
\* connection, at the end of the signal's connection list; its handle.
Connect(type) ==
    /\ ~crashed
    /\ obj = "alive"
    /\ nConns < MaxConn
    /\ nConns' = nConns + 1
    /\ conn' = [conn EXCEPT ![nConns + 1] =
                  [state |-> "connected", type |-> type, since |-> Len(log)]]
    /\ UNCHANGED <<prod, cursor, last, incall, pending, received, lateCall>>

\* QObject::disconnect(handle): the connection is removed; a handle that is
\* removed already is left as it is. Calls posted before are not withdrawn.
Disconnect(h) ==
    /\ ~crashed
    /\ h \in 1..nConns
    /\ conn' = IF conn[h].state = "connected"
               THEN [conn EXCEPT ![h].state = "disconnected"] ELSE conn
    /\ UNCHANGED <<prod, nConns, cursor, last, incall, pending, received, lateCall>>

\* The receiver's event loop takes the oldest posted call and calls the slot.
Deliver(h) ==
    /\ ~crashed
    /\ pending[h] # <<>>
    /\ received' = [received EXCEPT ![h] = Append(@, Head(pending[h]))]
    /\ pending' = [pending EXCEPT ![h] = Tail(@)]
    /\ lateCall' = [lateCall EXCEPT ![h] = @ \/ conn[h].state = "disconnected"]
    /\ UNCHANGED <<prod, nConns, conn, cursor, last, incall>>

\* The slot a producer thread is executing returns.
SlotReturn(t) ==
    /\ ~crashed
    /\ incall[t] # 0
    /\ incall' = [incall EXCEPT ![t] = 0]
    /\ UNCHANGED <<prod, nConns, conn, cursor, last, pending, received, lateCall>>

\* The object, its producer threads and its lifetime; nothing is connected.
Next ==
    \/ startStreaming
    \/ \E t \in Threads : ThreadStep(t)
    \/ \E t \in Threads : EmitDangling(t)
    \/ Destroy

Spec == Init /\ [][Next]_vars

\* The producer threads alone, each scheduled fairly.
LoopNext ==
    \/ startStreaming
    \/ \E t \in Threads : ThreadStep(t)

LoopSpec == Init /\ [][LoopNext]_vars /\ \A t \in Threads : WF_vars(ThreadStep(t))

\* The first call of startStreaming.
FirstStart ==
    /\ nThreads = 0
    /\ startStreaming

\* The object with one producer thread, and receivers connecting to and
\* disconnecting from the signal.
SigNext ==
    \/ FirstStart
    \/ \E t \in Threads : ThreadStep(t)
    \/ \E type \in ConnTypes : Connect(type)
    \/ \E h \in Handles : Disconnect(h)
    \/ \E h \in Handles : Deliver(h)
    \/ \E t \in Threads : SlotReturn(t)

SigSpec == Init /\ [][SigNext]_vars

(***************************************************************************)
(* Properties                                                              *)
(***************************************************************************)

\* The emissions of thread t, in the order made.
EmittedBy(t) == SelectSeq(log, LAMBDA e : e.src = t)

\* The producer threads that are running.
Producers == {t \in Threads : pc[t] \notin {"none", "finished"}}

\* C1: the Nth event produced since start carries sequence number N (counted
\* from 0), so no number is produced twice and none is skipped.
C1_NthEventCarriesN ==
    \A i \in 1..Len(log) : log[i].data = Arg(Template, i - 1)

\* C2: a second start while running starts no second production loop: at any
\* time at most one producer is emitting events.
C2_SingleProducer == Cardinality(Producers) <= 1

\* C6: the first event produced after every start has sequence number 0,
\* however many events were produced before that start.
C6_FirstEventAfterStartIsZero ==
    \A t \in Threads :
        (pc[t] # "none" /\ Len(log) > startedAt[t])
            => log[startedAt[t] + 1].data = Arg(Template, 0)

\* C8: once the object is destroyed, no connection to it is left and no
\* producer thread emits through it or touches it.
C8_DestroyedSourceUntouched ==
    obj = "destroyed" =>
        /\ ~touched
        /\ \A h \in Handles : conn[h].state # "connected"

\* The places of a thread in the order it passes them: created, then the
\* lambda's statements.
LoopOrder ==
    {<<"none", "begin">>, <<"begin", "while">>, <<"while", "format">>, <<"format", "emit">>,
     <<"emit", "activate">>, <<"activate", "sleep">>, <<"sleep", "while">>}

\* C9: the loop of a started thread has no exit: the thread never terminates,
\* each round emits dataChanged exactly once and then sleeps once before the
\* next round, and fairly scheduled threads go on emitting (here: up to
\* the MaxEvents events that are explored).
C9_LoopNeverStops ==
    /\ [](\A t \in Threads : pc[t] # "finished")
    /\ [][\A t \in Threads :
            /\ pc'[t] # pc[t] => <<pc[t], pc'[t]>> \in LoopOrder
            /\ Len(EmittedBy(t))' =
                 Len(EmittedBy(t)) + (IF pc[t] = "emit" /\ pc'[t] = "activate" THEN 1 ELSE 0)
         ]_vars
    /\ (nThreads > 0) ~> (Len(log) = MaxEvents)

\* C9's case: a thread has gone round the loop MaxEvents times and is at the
\* head of the next round.
C9_Witness ==
    \E t \in Threads :
        /\ pc[t] = "format"
        /\ Len(EmittedBy(t)) = MaxEvents

\* C10: every thread startStreaming creates counts on its own: its emissions
\* are "Data update: 0", "Data update: 1", ... in order, one more per
\* emission, whatever the other threads do; so a number is emitted at most
\* once per call of startStreaming.
C10_IndependentCounters ==
    /\ \A t \in Threads :
          LET s == EmittedBy(t) IN
          /\ \A i \in 1..Len(s) : s[i].data = Arg(Template, i - 1)
          /\ (obj = "alive" /\ pc[t] \notin {"none", "begin"})
                => counter[t] = Len(s) + (IF pc[t] = "emit" THEN 1 ELSE 0)
    /\ \A n \in 0..MaxEvents :
          Cardinality({i \in 1..Len(log) : log[i].data = Arg(Template, n)}) <= nThreads

\* C10's case: two threads emit interleaved, and a number is emitted twice.
C10_Witness ==
    \E i, j, k \in 1..Len(log) :
        /\ i < j /\ j < k
        /\ log[i].src = 1 /\ log[j].src = 2 /\ log[k].src = 1
        /\ log[i].data = Arg(Template, 0)
        /\ log[j].data = Arg(Template, 0)
        /\ log[k].data = Arg(Template, 1)

\* The events handed to connection h so far: the calls made, then the calls
\* still posted.
Got(h) == received[h] \o pending[h]

\* Event e is being emitted and its emission has not visited connection h yet.
NotYetVisited(e, h) ==
    \E t \in Threads :
        /\ pc[t] = "activate"
        /\ Current(t) = e
        /\ cursor[t] <= h

\* C4: after unsubscribe(handle) has returned, the callback of that handle is
\* never invoked again, also when events for it were still queued.
C4_NoCallAfterUnsubscribe == \A h \in Handles : ~lateCall[h]

\* C5: subscribing is not retroactive: a connection is never handed an event
\* emitted before it was made, and it is handed every event emitted after
\* that exactly once for as long as it stays connected.
C5_NotRetroactive ==
    \A h \in Handles :
        conn[h].state # "unused" =>
            LET g == Got(h) IN
            /\ \A i \in 1..Len(g) : g[i] > conn[h].since /\ g[i] <= Len(log)
            /\ \A i, j \in 1..Len(g) : i # j => g[i] # g[j]
            /\ conn[h].state = "connected" =>
                  \A e \in (conn[h].since + 1)..Len(log) :
                      \/ \E i \in 1..Len(g) : g[i] = e
                      \/ NotYetVisited(e, h)

\* C5's case: a connection made after the first event was emitted has had its
\* slot called with a later event.
C5_Witness ==
    \E h \in Handles :
        /\ conn[h].since >= 1
        /\ conn[h].state = "connected"
        /\ received[h] # <<>>
        /\ log[received[h][1]].data = Arg(Template, conn[h].since)

\* C7: a slow or blocked subscriber cannot delay the producer: a producer in
\* the middle of an emission can always take its next step, whatever state
\* the subscribers' callbacks are in.
C7_ProducerNeverDelayed ==
    \A t \in Threads : pc[t] = "activate" => ENABLED ThreadStep(t)

====
